---- MODULE Spec2Model ----
(***************************************************************************)
(* MultiQrCode (src/lib.rs): splitting a payload into index-tagged chunks  *)
(* and handing each chunk to the QR encoder.  One call of MultiQrCode::new *)
(* or MultiQrCode::with_slack is executed step by step; the encoder        *)
(* (QrCode::with_version of the qrcode crate) is the environment.          *)
(***************************************************************************)
EXTENDS Integers, Sequences, FiniteSets, TLC

VARIABLES
    entry,          \* the entry point called: "new" or "with_slack"
    data,           \* the payload, a sequence of bytes
    version,        \* Version::Normal(n) or Version::Micro(n)
    ec,             \* EcLevel
    slack,          \* the slack argument of with_slack
    pc,             \* position in the call
    qr_size_data,   \* the local qr_size_data (a negative value x stands for
                    \* the wrapped usize 2^64 + x)
    qr_data,        \* the scratch buffer qr_data
    i,              \* the enumerate() counter of the chunk loop
    res,            \* the local res: codes pushed so far
    calls,          \* every invocation of QrCode::with_version, in order
    result,         \* how the call ended: "none" while it runs
    codes           \* MultiQrCode.codes of the returned value

vars == <<entry, data, version, ec, slack, pc, qr_size_data, qr_data, i, res,
          calls, result, codes>>

----------------------------------------------------------------------------
(* Bounds of the model *)

\* slack arguments 0..MaxSlack are tried on symbols of at most
\* MaxSweepCapacity bytes (and on versions that have no capacity)
MaxSlack == 10
MaxSweepCapacity == 60
\* on every symbol, the slacks capacity + 1 - d, d in 0..MaxNear, are tried
MaxNear == 4
\* payload lengths 0..MaxShort are tried for every version
MaxShort == 3
\* payloads of q full chunks (one byte less, exactly, one byte more), q in 1..MaxFull
MaxFull == 2
\* payloads of 256 chunks, and one byte more, are tried when a chunk holds at
\* most MaxWrapPer bytes and the symbol at most MaxSweepCapacity
MaxWrapPer == 1
\* Version::Normal(n) is tried for n in -1 .. NUM_VERSIONS + MaxBeyond
MaxBeyond == 1
\* Version::Micro(n) is tried for n in 1..MaxMicro
MaxMicro == 4

----------------------------------------------------------------------------
(* Constants of the program *)

\* rows of QR_DATA_LENGTHS and entries of QR_VERSION_SLACK
NUM_VERSIONS == 40
\* the number of values of a u8 (the cast `i as u8`)
U8_RANGE == 256
\* Version::Micro(x) is indexed at x + 39
MICRO_OFFSET == 39

QR_DATA_LENGTHS == <<
    <<19, 16, 13, 9>>,
    <<34, 28, 22, 16>>,
    <<55, 44, 34, 26>>,
    <<80, 64, 48, 36>>,
    <<108, 86, 62, 46>>,
    <<136, 108, 76, 60>>,
    <<156, 124, 88, 66>>,
    <<194, 154, 110, 86>>,
    <<232, 182, 132, 100>>,
    <<274, 216, 154, 122>>,
    <<324, 254, 180, 140>>,
    <<370, 290, 206, 158>>,
    <<428, 334, 244, 180>>,
    <<461, 365, 261, 197>>,
    <<523, 415, 295, 223>>,
    <<589, 453, 325, 253>>,
    <<647, 507, 367, 283>>,
    <<721, 563, 397, 313>>,
    <<795, 627, 445, 341>>,
    <<861, 669, 485, 385>>,
    <<932, 714, 512, 406>>,
    <<1006, 782, 568, 442>>,
    <<1094, 860, 614, 464>>,
    <<1174, 914, 664, 514>>,
    <<1276, 1000, 718, 538>>,
    <<1370, 1062, 754, 596>>,
    <<1468, 1128, 808, 628>>,
    <<1531, 1193, 871, 661>>,
    <<1631, 1267, 911, 701>>,
    <<1735, 1373, 985, 745>>,
    <<1843, 1455, 1033, 793>>,
    <<1955, 1541, 1115, 845>>,
    <<2071, 1631, 1171, 901>>,
    <<2191, 1725, 1231, 961>>,
    <<2306, 1812, 1286, 986>>,
    <<2434, 1914, 1354, 1054>>,
    <<2566, 1992, 1426, 1096>>,
    <<2702, 2102, 1502, 1142>>,
    <<2812, 2216, 1582, 1222>>,
    <<2956, 2334, 1666, 1276>>
>>

QR_VERSION_SLACK_AllTwo ==
    << 2, 2, 2, 2, 2, 2, 2, 2, 2,
       2, 2, 2, 2, 2, 2, 2, 2, 2, 2, 2, 2, 2, 2, 2, 2, 2, 2, 2, 2, 2, 2,
       2, 2, 2, 2, 2, 2, 2, 2, 2 >>

QR_VERSION_SLACK ==
    << 2, 2, 2, 2, 2, 2, 2, 2, 2,
       3, 3, 3, 3, 3, 3, 3, 3, 3, 3, 3, 3, 3, 3, 3, 3, 3, 3, 3, 3, 3, 3,
       3, 3, 3, 3, 3, 3, 3, 3, 3 >>

DEFAULT_EC_LEVEL == "L"

----------------------------------------------------------------------------
(* Types and pure helpers *)

Normal(n) == [kind |-> "Normal", n |-> n]
Micro(n) == [kind |-> "Micro", n |-> n]

EcLevels == {"L", "M", "Q", "H"}

\* `ec as usize`: the discriminant of EcLevel
EcAsUsize(e) ==
    CASE e = "L" -> 0
      [] e = "M" -> 1
      [] e = "Q" -> 2
      [] e = "H" -> 3

\* ToIndex::to_index.  The i16 is cast to usize: a negative value becomes a
\* usize above 2^64 - 2^15, kept here as the negative number.
ToIndex(v) == IF v.kind = "Normal" THEN v.n - 1 ELSE v.n + MICRO_OFFSET

\* the bounds check of an array index: a wrapped (negative) index is past
\* the end of every array
InBounds(idx, len) == idx >= 0 /\ idx < len

Min(a, b) == IF a < b THEN a ELSE b

\* the number of chunks data.chunks(n) yields, n > 0
NumChunks(len, n) == (len + n - 1) \div n

\* the k-th (0-based) slice of d.chunks(n), n > 0
ChunkAt(d, n, k) == SubSeq(d, k * n + 1, Min((k + 1) * n, Len(d)))

\* chunk size 2^64 - 1 (qr_size_data = -1 wrapped): every slice fits in one chunk
ChunkSize(d) == IF qr_size_data < 0 THEN Len(d) + 1 ELSE qr_size_data

\* `i as u8`
AsU8(n) == n % U8_RANGE

\* vec!(0; n)
Zeros(n) == [j \in 1..n |-> 0]

\* qr_data[0] = i as u8; qr_data[1..1+part.len()].clone_from_slice(part)
FillBuffer(buf, idx, part) ==
    [j \in 1..Len(buf) |->
        IF j = 1 THEN AsU8(idx)
        ELSE IF j <= 1 + Len(part) THEN part[j - 1]
        ELSE buf[j]]

\* a mutation: the whole scratch buffer is handed to the encoder
EncoderInputWholeBuffer(buf, part) == buf

\* &qr_data[0..1+part.len()]
EncoderInput(buf, part) == SubSeq(buf, 1, 1 + Len(part))

\* a mutation: the index byte is not counted
QrSizeDataNoIndexByte(total, s) == total - s

\* qr_size_total - (1 + slack), as the mathematical integer
QrSizeData(total, s) == total - (1 + s)

----------------------------------------------------------------------------
(* The encoder, QrCode::with_version: byte mode costs a 4-bit mode          *)
(* indicator and an 8-bit (versions 1..9) or 16-bit (versions 10..40)       *)
(* length field, rounded up to whole bytes.  Data that fits in byte mode is *)
(* accepted; longer data is accepted only if the encoder finds a denser     *)
(* segmentation, which is left open here.                                   *)

EncoderOverhead(v) == IF v.n <= 9 THEN 2 ELSE 3

EncoderOutcomes(bytes, v, e) ==
    IF Len(bytes) + EncoderOverhead(v) <= QR_DATA_LENGTHS[v.n][EcAsUsize(e) + 1]
    THEN {TRUE}
    ELSE {TRUE, FALSE}

----------------------------------------------------------------------------
(* Inputs *)

Versions ==
    {Normal(n) : n \in (0 - 1)..(NUM_VERSIONS + MaxBeyond)}
        \cup {Micro(n) : n \in 1..MaxMicro}

\* the capacity the inputs select (0 when the version has no table row)
InputCapacity(v, e) ==
    IF v.kind = "Normal" /\ v.n >= 1 /\ v.n <= NUM_VERSIONS
    THEN QR_DATA_LENGTHS[v.n][EcAsUsize(e) + 1]
    ELSE 0

Slacks(total) ==
    (IF total <= MaxSweepCapacity THEN 0..MaxSlack ELSE {})
    \cup {s \in {total + 1 - d : d \in 0..MaxNear} : s >= 0}

\* payload byte j (1-based)
PayloadByte(j) == (7 * j) % U8_RANGE

Payload(len) == [j \in 1..len |-> PayloadByte(j)]

PayloadLens(total, per) ==
    (0..MaxShort)
    \cup (IF per > 0
          THEN {q * per + r : q \in 1..MaxFull, r \in {0 - 1, 0, 1}}
          ELSE {})
    \cup (IF per > 0 /\ per <= MaxWrapPer /\ total <= MaxSweepCapacity
          THEN {U8_RANGE * per, U8_RANGE * per + 1}
          ELSE {})

\* the slack MultiQrCode::new will pass on, if its lookup succeeds
InputSlack(en, v, s) ==
    IF en = "new"
    THEN IF v.kind = "Normal" /\ v.n >= 1 /\ v.n <= NUM_VERSIONS
         THEN QR_VERSION_SLACK[v.n]
         ELSE 0
    ELSE s

Init ==
    /\ entry \in {"new", "with_slack"}
    /\ version \in Versions
    /\ ec \in EcLevels
    /\ slack \in IF entry = "new" THEN {0} ELSE Slacks(InputCapacity(version, ec))
    /\ \E len \in PayloadLens(InputCapacity(version, ec),
                              InputCapacity(version, ec)
                                  - (1 + InputSlack(entry, version, slack))) :
            data = Payload(len)
    /\ pc = entry
    /\ qr_size_data = 0
    /\ qr_data = <<>>
    /\ i = 0
    /\ res = <<>>
    /\ calls = <<>>
    /\ result = "none"
    /\ codes = <<>>

----------------------------------------------------------------------------
(* The steps of a call *)

\* the call ends with r, returning no MultiQrCode
Fail(r) ==
    /\ pc' = "done"
    /\ result' = r
    /\ codes' = <<>>

\* MultiQrCode::new: QR_VERSION_SLACK[version.to_index()] is evaluated
\* before with_slack is entered
New ==
    /\ pc = "new"
    /\ IF InBounds(ToIndex(version), Len(QR_VERSION_SLACK))
       THEN /\ slack' = QR_VERSION_SLACK[ToIndex(version) + 1]
            /\ pc' = "with_slack"
            /\ UNCHANGED <<result, codes>>
       ELSE /\ Fail("panic")
            /\ UNCHANGED slack
    /\ UNCHANGED <<entry, data, version, ec, qr_size_data, qr_data, i, res, calls>>

\* with_slack: fail if version is Micro
CheckVersion ==
    /\ pc = "with_slack"
    /\ IF version.kind = "Micro"
       THEN Fail("InvalidVersion")
       ELSE /\ pc' = "sizes"
            /\ UNCHANGED <<result, codes>>
    /\ UNCHANGED <<entry, data, version, ec, slack, qr_size_data, qr_data, i, res, calls>>

\* with_slack: calculate sizes, allocate qr_data, call data.chunks
CalcSizes ==
    /\ pc = "sizes"
    /\ IF ~InBounds(ToIndex(version), Len(QR_DATA_LENGTHS))
       THEN \* index out of bounds
            Fail("panic") /\ UNCHANGED <<qr_size_data, qr_data>>
       ELSE LET qr_size_total == QR_DATA_LENGTHS[ToIndex(version) + 1][EcAsUsize(ec) + 1]
                size == QrSizeData(qr_size_total, slack)
            IN  IF size < 0
                THEN \* the subtraction overflows: a panic with overflow checks
                     \* (debug builds), a wrapped value without (release builds)
                     \/ Fail("panic") /\ UNCHANGED <<qr_size_data, qr_data>>
                     \/ IF size = 0 - 1
                        THEN \* 1 + (2^64 - 1) wraps to 0: an empty buffer
                             /\ qr_size_data' = size
                             /\ qr_data' = <<>>
                             /\ pc' = "loop"
                             /\ UNCHANGED <<result, codes>>
                        ELSE \* vec! of more than isize::MAX bytes: capacity overflow
                             Fail("panic") /\ UNCHANGED <<qr_size_data, qr_data>>
                ELSE IF size = 0
                THEN \* data.chunks(0) panics
                     Fail("panic") /\ UNCHANGED <<qr_size_data, qr_data>>
                ELSE /\ qr_size_data' = size
                     /\ qr_data' = Zeros(1 + size)
                     /\ pc' = "loop"
                     /\ UNCHANGED <<result, codes>>
    /\ UNCHANGED <<entry, data, version, ec, slack, i, res, calls>>

\* a mutation: a failed chunk is skipped and the loop goes on
EncodeErrSkip(bytes) ==
    /\ calls' = Append(calls, [bytes |-> bytes, version |-> version, ec |-> ec, ok |-> FALSE])
    /\ i' = i + 1
    /\ UNCHANGED <<pc, result, codes, res>>

\* QrCode::with_version(..)? returns the encoder's error from with_slack
EncodeErr(bytes) ==
    /\ calls' = Append(calls, [bytes |-> bytes, version |-> version, ec |-> ec, ok |-> FALSE])
    /\ Fail("DataTooLong")
    /\ UNCHANGED <<i, res>>

\* res.push(QrCode::with_version(..)?) with the encoder succeeding
EncodeOk(bytes) ==
    /\ calls' = Append(calls, [bytes |-> bytes, version |-> version, ec |-> ec, ok |-> TRUE])
    /\ res' = Append(res, [bytes |-> bytes, version |-> version, ec |-> ec])
    /\ i' = i + 1
    /\ UNCHANGED <<pc, result, codes>>

\* one iteration of the chunk loop
LoopStep ==
    /\ pc = "loop"
    /\ i < NumChunks(Len(data), ChunkSize(data))
    /\ IF Len(qr_data) = 0
       THEN \* qr_data[0]: index out of bounds
            Fail("panic") /\ UNCHANGED <<qr_data, i, res, calls>>
       ELSE LET part == ChunkAt(data, ChunkSize(data), i)
                buf == FillBuffer(qr_data, i, part)
                bytes == EncoderInput(buf, part)
            IN  /\ qr_data' = buf
                /\ \E ok \in EncoderOutcomes(bytes, version, ec) :
                      IF ok THEN EncodeOk(bytes) ELSE EncodeErr(bytes)
    /\ UNCHANGED <<entry, data, version, ec, slack, qr_size_data>>

\* Ok(MultiQrCode { codes: res })
Return ==
    /\ pc = "loop"
    /\ i >= NumChunks(Len(data), ChunkSize(data))
    /\ pc' = "done"
    /\ result' = "Ok"
    /\ codes' = res
    /\ UNCHANGED <<entry, data, version, ec, slack, qr_size_data, qr_data, i, res, calls>>

Next == New \/ CheckVersion \/ CalcSizes \/ LoopStep \/ Return

Spec == Init /\ [][Next]_vars

----------------------------------------------------------------------------
(* What the properties speak about *)

\* the version is Version::Normal(n) with a row in both tables
ValidNormal == version.kind = "Normal" /\ version.n >= 1 /\ version.n <= NUM_VERSIONS

\* the capacity of the requested symbol (ValidNormal only)
Total == QR_DATA_LENGTHS[version.n][EcAsUsize(ec) + 1]

\* the data bytes per chunk, total - (1 + slack), as a mathematical integer
PerChunkData == Total - (1 + slack)

\* the slack argument of with_slack is known (new has looked it up)
InWithSlack == pc # "new" /\ ~(entry = "new" /\ result = "panic")

\* the call returned Err(_)
ReturnedErr == pc = "done" /\ result \notin {"Ok", "panic"}

RECURSIVE ConcatData(_)
\* the data portions (all bytes after the index byte) of a sequence of
\* chunks, concatenated in order
ConcatData(cs) ==
    IF cs = <<>> THEN <<>> ELSE Tail(Head(cs).bytes) \o ConcatData(Tail(cs))

----------------------------------------------------------------------------
(* C1: partition correctness.  Whenever a call on a Normal version 1..40   *)
(* succeeds, the returned codes are the encoder's outputs for the chunks   *)
(* handed to it, in order, and the chunks' bytes after the index byte      *)
(* concatenate to exactly the payload.                                     *)
C1_PartitionCorrect ==
    (result = "Ok" /\ ValidNormal) =>
        /\ Len(codes) = Len(calls)
        /\ \A k \in 1..Len(codes) : codes[k].bytes = calls[k].bytes
        /\ ConcatData(codes) = data

\* a successful call whose last chunk is shorter than the first: the
\* scratch buffer still holds bytes of the earlier chunk
C1_Witness ==
    /\ result = "Ok"
    /\ ValidNormal
    /\ Len(codes) >= 2
    /\ Len(codes[Len(codes)].bytes) < Len(codes[1].bytes)

(* C2: index contiguity.  In every successful call the index byte of the   *)
(* k-th chunk (counting from 0) equals k.                                  *)
C2_IndexContiguous ==
    result = "Ok" =>
        \A k \in 1..Len(codes) : codes[k].bytes[1] = k - 1

(* C3: too many chunks.  When the payload needs more than 256 chunks, the  *)
(* encoder is never invoked and the call returns an error value.           *)
C3_TooManyChunks ==
    (/\ ValidNormal
     /\ InWithSlack
     /\ PerChunkData > 0
     /\ NumChunks(Len(data), PerChunkData) > U8_RANGE) =>
        /\ calls = <<>>
        /\ pc = "done" => ReturnedErr

(* C4: empty payload.  A call with a zero-length payload and               *)
(* 1 + slack < capacity succeeds with exactly one code, made from the      *)
(* chunk <<0>> (index byte 0, no data).                                    *)
C4_EmptyPayloadOneCode ==
    (/\ pc = "done"
     /\ ValidNormal
     /\ InWithSlack
     /\ data = <<>>
     /\ 1 + slack < Total) =>
        /\ result = "Ok"
        /\ Len(codes) = 1
        /\ codes[1].bytes = <<0>>

(* C5: insufficient capacity.  Whenever 1 + slack >= capacity, the call    *)
(* returns an error value and the encoder is not invoked.                  *)
C5_InsufficientCapacity ==
    (/\ pc = "done"
     /\ ValidNormal
     /\ InWithSlack
     /\ 1 + slack >= Total) =>
        /\ ReturnedErr
        /\ calls = <<>>

(* C6: capacity bound.  With 1 + slack < capacity, every chunk handed to   *)
(* the encoder is at most capacity - slack bytes long, carries between 1   *)
(* and perChunkData data bytes, and carries exactly perChunkData unless    *)
(* it is the last chunk of the payload.                                    *)
C6_CapacityBound ==
    (ValidNormal /\ InWithSlack /\ 1 + slack < Total) =>
        \A k \in 1..Len(calls) :
            LET n == Len(calls[k].bytes) - 1
            IN  /\ Len(calls[k].bytes) <= Total - slack
                /\ n >= 1
                /\ n <= PerChunkData
                /\ k * PerChunkData < Len(data) => n = PerChunkData

\* a direct call that handed three chunks over, the last with one data byte
C6_Witness ==
    /\ entry = "with_slack"
    /\ result = "Ok"
    /\ ValidNormal
    /\ 1 + slack < Total
    /\ Len(calls) = 3
    /\ Len(calls[3].bytes) = 2
    /\ Len(calls[1].bytes) = Total - slack

(* C7: a Micro version is rejected first.  Both entry points return        *)
(* QrError::InvalidVersion for every Micro version, without invoking the   *)
(* encoder.                                                                *)
C7_MicroRejected ==
    (pc = "done" /\ version.kind = "Micro") =>
        /\ result = "InvalidVersion"
        /\ calls = <<>>

(* C8: fail-fast, all-or-nothing encoding.  The k-th invocation of the     *)
(* encoder gets the k-th chunk of the payload with the caller's version    *)
(* and EC level; only the latest invocation can have failed, and when it   *)
(* has, the call has ended with that error and returns no codes; a         *)
(* successful call returns one code per chunk, in chunk order.             *)
C8_FailFast ==
    /\ \A k \in 1..Len(calls) :
          /\ calls[k].version = version
          /\ calls[k].ec = ec
          /\ ValidNormal
          /\ PerChunkData > 0
          /\ Tail(calls[k].bytes) = ChunkAt(data, PerChunkData, k - 1)
          /\ k < Len(calls) => calls[k].ok
    /\ (calls # <<>> /\ ~calls[Len(calls)].ok) =>
          /\ pc = "done"
          /\ result = "DataTooLong"
          /\ codes = <<>>
    /\ result \notin {"none", "Ok"} => codes = <<>>
    /\ (result = "Ok" /\ ValidNormal /\ PerChunkData > 0) =>
          /\ Len(codes) = NumChunks(Len(data), PerChunkData)
          /\ Len(calls) = Len(codes)
          /\ \A k \in 1..Len(codes) :
                codes[k] = [bytes |-> calls[k].bytes, version |-> version, ec |-> ec]

\* the encoder failed on a chunk after accepting an earlier one
C8_Witness ==
    /\ result = "DataTooLong"
    /\ Len(calls) >= 2
    /\ calls[1].ok
    /\ ~calls[Len(calls)].ok
    /\ Len(data) > Len(calls) * PerChunkData

(* C9: minimum-slack sufficiency.  In a call of new on a Normal version    *)
(* 1..40 at EC level L, every chunk handed to the encoder, plus the        *)
(* encoder's byte-mode overhead, fits the capacity, and the encoder never  *)
(* rejects a chunk.                                                        *)
C9_MinimumSlackSufficient ==
    (entry = "new" /\ ec = DEFAULT_EC_LEVEL /\ ValidNormal) =>
        /\ \A k \in 1..Len(calls) :
              Len(calls[k].bytes) + EncoderOverhead(version)
                  <= QR_DATA_LENGTHS[version.n][1]
        /\ result # "DataTooLong"

\* new at version 40, level L, filled a chunk to the last byte the encoder takes
C9_Witness ==
    /\ entry = "new"
    /\ ec = DEFAULT_EC_LEVEL
    /\ version = Normal(NUM_VERSIONS)
    /\ result = "Ok"
    /\ Len(calls) >= 2
    /\ Len(calls[1].bytes) + EncoderOverhead(version) = QR_DATA_LENGTHS[NUM_VERSIONS][1]

(* C10: an out-of-range size class is an error value.  For Normal(n) with  *)
(* n < 1 or n > 40 both entry points return an error value.                *)
C10_OutOfRangeIsError ==
    (/\ pc = "done"
     /\ version.kind = "Normal"
     /\ (version.n < 1 \/ version.n > NUM_VERSIONS)) =>
        ReturnedErr

====
